---- MODULE Spec2Model ----
(***************************************************************************)
(* TeleprompterWindow (src/teleprompter.py): one frameless Qt window with  *)
(* a control strip, a text surface, a 50ms auto-scroll timer, keyboard     *)
(* shortcuts, an event filter installed on the window itself, and mouse    *)
(* drag / resize gestures.                                                 *)
(*                                                                         *)
(* The toolkit calls the program makes are modelled by what they do:       *)
(*  - QAbstractSlider.setValue bounds the value to [minimum, maximum] and  *)
(*    emits valueChanged only when the value changes;                      *)
(*  - a key press is first offered as ShortcutOverride to the focus        *)
(*    widget, then to the shortcut map (a matching QShortcut consumes it), *)
(*    and only otherwise delivered as KeyPress, reaching the window's      *)
(*    event filter when the focus widget does not consume it;              *)
(*  - a disabled widget takes no user input, a read-only text surface      *)
(*    takes no edits.                                                      *)
(***************************************************************************)
EXTENDS Integers, Sequences, FiniteSets, TLC

\* ---------------------------------------------------------------- bounds
\* Largest scrollbar maximum the text surface's document reaches.
MaxScroll == 23
\* Text contents are 0 (empty) .. MaxText.
MaxText == 1
\* Window origins stay within 0..MaxCoord on both axes.
MaxCoord == 150
\* Window sizes stay within MaxWidth x MaxHeight.
MaxWidth == 700
MaxHeight == 500
\* Longest run of consecutive timer ticks that is followed.
MaxTicks == 5

\* ------------------------------------------------------ program constants
MinSpeed == 1
MaxSpeed == 10
NudgeUnits == 10
MinimumWidth == 300
MinimumHeight == 200
corner_size == 20
resize_enabled == TRUE

VARIABLES
  locked, scrolling, scroll_speed, transparency, font_color, font_size,
  font_family, dragging, drag_position, has_resizing, resizing,
  resize_start_pos, resize_start_size,
  enabled, readOnly, lock_button_text, scroll_button_text,
  size_slider, trans_slider, scroll_slider,
  timer_active, scroll_value, scroll_max, text, control_visible,
  pos, size, buttons, cursor,
  last, run, saved

lockVars   == <<locked, enabled, readOnly, lock_button_text>>
scrollVars == <<scrolling, timer_active, scroll_button_text>>
speedVars  == <<scroll_speed, scroll_slider>>
barVars    == <<scroll_value, scroll_max>>
styleVars  == <<transparency, font_color, font_size, font_family,
                size_slider, trans_slider, control_visible>>
mouseVars  == <<dragging, drag_position, has_resizing, resizing,
                resize_start_pos, resize_start_size, pos, size, buttons,
                cursor>>
\* History: last is the event handled last, with the lock and scroll state
\* it found; run is the current run of consecutive timer ticks (the offset
\* it started from and its length); saved is the controls' enabled and
\* read-only flags as they were when the window was locked last.
histVars   == <<last, run, saved>>
vars == <<lockVars, scrollVars, speedVars, barVars, styleVars, text,
          mouseVars, histVars>>

\* ------------------------------------------------------------ value sets
Widgets == {"font_combo", "size_slider", "color_button", "trans_slider",
            "scroll_slider", "lock_button", "scroll_button"}
StyleControls == {"font_combo", "size_slider", "color_button",
                  "trans_slider", "scroll_slider"}
Texts == 0..MaxText
ScrollRanges == {0, MaxScroll}

Min(a, b) == IF a < b THEN a ELSE b
Max(a, b) == IF a > b THEN a ELSE b

\* The quotient a / b of two positive integers, as a fraction in lowest
\* terms.
RECURSIVE Gcd(_, _)
Gcd(a, b) == IF b = 0 THEN a ELSE Gcd(b, a % b)
Quotient(a, b) == <<a \div Gcd(a, b), b \div Gcd(a, b)>>

\* QAbstractSlider::setValue: the value is forced into [lo, hi].
Bound(v, lo, hi) == Max(lo, Min(v, hi))

\* ------------------------------------------------------------------ Init
Init ==
  /\ locked = FALSE
  /\ scrolling = FALSE
  /\ scroll_speed = 1
  /\ transparency = <<4, 5>>
  /\ font_color = "white"
  /\ font_size = 18
  /\ font_family = "Arial"
  /\ dragging = FALSE
  /\ drag_position = <<>>
  /\ has_resizing = FALSE
  /\ resizing = FALSE
  /\ resize_start_pos = <<>>
  /\ resize_start_size = <<>>
  /\ enabled = [w \in Widgets |-> TRUE]
  /\ readOnly = FALSE
  /\ lock_button_text = "Lock Position"
  /\ scroll_button_text = "Start Scrolling"
  /\ size_slider = 18
  /\ trans_slider = (transparency[1] * 100) \div transparency[2]
  /\ scroll_slider = 1
  /\ timer_active = FALSE
  /\ scroll_value = 0
  /\ scroll_max = 0
  /\ text = 0
  /\ control_visible = TRUE
  /\ pos = <<100, 100>>
  /\ size = <<600, 400>>
  /\ buttons = {}
  /\ cursor = "Arrow"
  /\ last = [op |-> "init", arg |-> "", input |-> <<>>, locked |-> FALSE,
             scrolling |-> FALSE, speed |-> 1, visible |-> TRUE,
             opacity |-> <<4, 5>>]
  /\ run = [base |-> 0, ticks |-> 0]
  /\ saved = [enabled |-> [w \in Widgets |-> TRUE], readOnly |-> FALSE]

\* The event being handled, with its input (a pointer position or a slider
\* value) and the state it finds.
Event(op, arg, input) ==
  [op |-> op, arg |-> arg, input |-> input, locked |-> locked,
   scrolling |-> scrolling, speed |-> scroll_speed,
   visible |-> control_visible, opacity |-> transparency]

\* The flags are saved by the event that locks the window.
Saved ==
  saved' = IF ~locked /\ locked'
             THEN [enabled |-> enabled, readOnly |-> readOnly]
             ELSE saved

\* Every event but a timer tick ends the run of ticks.
NoteInput(op, arg, input) ==
  /\ last' = Event(op, arg, input)
  /\ run' = [base |-> scroll_value', ticks |-> 0]
  /\ Saved

Note(op, arg) == NoteInput(op, arg, <<>>)


\* ------------------------------------------------- toolkit helper models
\* QTextEdit lays the document out again after an edit, a font change or a
\* resize: the vertical scrollbar gets a new maximum (0 for an empty
\* document) and QAbstractSlider::setRange bounds the value to it.
Relayout(newText) ==
  \E m \in (IF newText = 0 THEN {0} ELSE ScrollRanges) :
    /\ scroll_max' = m
    /\ scroll_value' = Bound(scroll_value, 0, m)

\* scrollbar.setValue(v) on text_edit.verticalScrollBar().
ScrollBarSetValue(v) ==
  /\ scroll_value' = Bound(v, 0, scroll_max)
  /\ scroll_max' = scroll_max

\* ------------------------------------------------------------- lock mode
\* Variant: locking leaves the speed slider enabled.
toggle_lock_keeps_slider ==
  /\ locked' = ~locked
  /\ lock_button_text' = IF locked' THEN "Unlock Position" ELSE "Lock Position"
  /\ enabled' = [w \in Widgets |->
                   IF w \in StyleControls \ {"scroll_slider"}
                     THEN ~locked' ELSE TRUE]
  /\ readOnly' = locked'

\* Variant: locking disables every control, the two toggle buttons too.
toggle_lock_disables_all ==
  /\ locked' = ~locked
  /\ lock_button_text' = IF locked' THEN "Unlock Position" ELSE "Lock Position"
  /\ enabled' = [w \in Widgets |-> ~locked']
  /\ readOnly' = locked'

\* Variant: unlocking does not re-enable the transparency slider.
toggle_lock_forgets_slider ==
  /\ locked' = ~locked
  /\ lock_button_text' = IF locked' THEN "Unlock Position" ELSE "Lock Position"
  /\ enabled' = [w \in Widgets |->
                   IF w = "trans_slider" THEN FALSE
                   ELSE IF w \in StyleControls THEN ~locked' ELSE TRUE]
  /\ readOnly' = locked'

toggle_lock ==
  /\ locked' = ~locked
  /\ IF locked'
       THEN /\ lock_button_text' = "Unlock Position"
            /\ enabled' = [enabled EXCEPT !["font_combo"] = FALSE,
                                          !["size_slider"] = FALSE,
                                          !["color_button"] = FALSE,
                                          !["trans_slider"] = FALSE,
                                          !["scroll_slider"] = FALSE,
                                          !["lock_button"] = TRUE,
                                          !["scroll_button"] = TRUE]
            /\ readOnly' = TRUE
       ELSE /\ lock_button_text' = "Lock Position"
            /\ enabled' = [enabled EXCEPT !["font_combo"] = TRUE,
                                          !["size_slider"] = TRUE,
                                          !["color_button"] = TRUE,
                                          !["trans_slider"] = TRUE,
                                          !["scroll_slider"] = TRUE,
                                          !["lock_button"] = TRUE,
                                          !["scroll_button"] = TRUE]
            /\ readOnly' = FALSE

\* toggle_lock as a slot: nothing but the lock state changes.
\* Variant: changing the lock state stops the scrolling.
ToggleLockSlot_stops_scrolling ==
  /\ toggle_lock
  /\ scrolling' = FALSE
  /\ timer_active' = FALSE
  /\ scroll_button_text' = "Start Scrolling"
  /\ UNCHANGED <<speedVars, barVars, styleVars, text, mouseVars>>

ToggleLockSlot ==
  /\ toggle_lock
  /\ UNCHANGED <<scrollVars, speedVars, barVars, styleVars, text, mouseVars>>

\* Variant: the lock test is inverted.
emergency_unlock_inverted ==
  IF ~locked
    THEN ToggleLockSlot
    ELSE UNCHANGED <<lockVars, scrollVars, speedVars, barVars, styleVars,
                     text, mouseVars>>

emergency_unlock ==
  IF locked
    THEN ToggleLockSlot
    ELSE UNCHANGED <<lockVars, scrollVars, speedVars, barVars, styleVars,
                     text, mouseVars>>

\* ----------------------------------------------------------- scroll mode
\* Variant: stopping leaves the timer running.
toggle_scrolling_keeps_timer ==
  /\ scrolling' = ~scrolling
  /\ timer_active' = TRUE
  /\ scroll_button_text' = IF scrolling' THEN "Stop Scrolling"
                                         ELSE "Start Scrolling"
  /\ UNCHANGED <<lockVars, speedVars, barVars, styleVars, text, mouseVars>>

toggle_scrolling ==
  /\ scrolling' = ~scrolling
  /\ IF scrolling'
       THEN /\ timer_active' = TRUE
            /\ scroll_button_text' = "Stop Scrolling"
       ELSE /\ timer_active' = FALSE
            /\ scroll_button_text' = "Start Scrolling"
  /\ UNCHANGED <<lockVars, speedVars, barVars, styleVars, text, mouseVars>>

\* Variant: a tick advances by one unit whatever the speed.
auto_scroll_by_one ==
  /\ ScrollBarSetValue(scroll_value + 1)
  /\ UNCHANGED <<lockVars, scrollVars, speedVars, styleVars, text, mouseVars>>

auto_scroll ==
  /\ ScrollBarSetValue(scroll_value + scroll_speed)
  /\ UNCHANGED <<lockVars, scrollVars, speedVars, styleVars, text, mouseVars>>

\* Variant: the upward nudge uses the scroll speed as its step.
scroll_up_by_speed ==
  /\ ScrollBarSetValue(scroll_value - scroll_speed)
  /\ UNCHANGED <<lockVars, scrollVars, speedVars, styleVars, text, mouseVars>>

scroll_up ==
  /\ ScrollBarSetValue(scroll_value - NudgeUnits)
  /\ UNCHANGED <<lockVars, scrollVars, speedVars, styleVars, text, mouseVars>>

scroll_down ==
  /\ ScrollBarSetValue(scroll_value + NudgeUnits)
  /\ UNCHANGED <<lockVars, scrollVars, speedVars, styleVars, text, mouseVars>>

\* scroll_slider.setValue(v) called with scroll_speed already set to s:
\* the slider bounds v to its range and, when its value changes, emits
\* valueChanged, whose slot change_scroll_speed stores the slider's value.
SpeedSliderSetValue(s, v) ==
  LET nv == Bound(v, MinSpeed, MaxSpeed) IN
    /\ scroll_slider' = nv
    /\ scroll_speed' = IF nv # scroll_slider THEN nv ELSE s

\* Variant: the increment is not capped.
increase_scroll_speed_uncapped ==
  /\ LET s == scroll_speed + 1 IN SpeedSliderSetValue(s, s)
  /\ UNCHANGED <<lockVars, scrollVars, barVars, styleVars, text, mouseVars>>

\* Variant: the new speed is not written to the slider.
increase_scroll_speed_unmirrored ==
  /\ scroll_speed' = Min(scroll_speed + 1, MaxSpeed)
  /\ UNCHANGED scroll_slider
  /\ UNCHANGED <<lockVars, scrollVars, barVars, styleVars, text, mouseVars>>

increase_scroll_speed ==
  /\ LET s == Min(scroll_speed + 1, MaxSpeed) IN SpeedSliderSetValue(s, s)
  /\ UNCHANGED <<lockVars, scrollVars, barVars, styleVars, text, mouseVars>>

decrease_scroll_speed ==
  /\ LET s == Max(scroll_speed - 1, MinSpeed) IN SpeedSliderSetValue(s, s)
  /\ UNCHANGED <<lockVars, scrollVars, barVars, styleVars, text, mouseVars>>

change_scroll_speed(value) ==
  /\ scroll_speed' = value
  /\ UNCHANGED <<lockVars, scrollVars, barVars, styleVars, text, mouseVars>>

\* ----------------------------------------------------------------- style
Families == {"Arial", "Courier"}
FontSizes == {8, 18, 72}
Colors == {"white", "red"}
MinOpacity == 10
MaxOpacity == 100
Opacities == {10, 80, 100}
DialogResults == Colors \cup {"rejected"}

change_font_family(family) ==
  /\ font_family' = family
  /\ Relayout(text)
  /\ UNCHANGED <<lockVars, scrollVars, speedVars, text, mouseVars,
                 transparency, font_color, font_size, size_slider,
                 trans_slider, control_visible>>

change_font_size(sz) ==
  /\ font_size' = sz
  /\ Relayout(text)
  /\ UNCHANGED <<lockVars, scrollVars, speedVars, text, mouseVars,
                 transparency, font_color, font_family, trans_slider,
                 control_visible>>

\* The colour dialog runs modally inside the slot; result is the colour the
\* user confirmed, or "rejected" when the dialog was cancelled.  font_color
\* stands for the colour swatch's fill and the text surface's foreground
\* too: the three are written together.
change_font_color(result) ==
  /\ font_color' = IF result \in Colors THEN result ELSE font_color
  /\ UNCHANGED <<lockVars, scrollVars, speedVars, barVars, text, mouseVars,
                 transparency, font_size, font_family, size_slider,
                 trans_slider, control_visible>>

\* Variant: the division by 100 drops the remainder.
change_transparency_truncated(value) ==
  /\ transparency' = <<value \div 100, 1>>
  /\ UNCHANGED <<lockVars, scrollVars, speedVars, barVars, text, mouseVars,
                 font_color, font_size, font_family, size_slider,
                 control_visible>>

\* transparency is a fraction <<numerator, denominator>> in lowest terms;
\* value / 100.0 is the quotient of value by 100.
change_transparency(value) ==
  /\ transparency' = Quotient(value, 100)
  /\ UNCHANGED <<lockVars, scrollVars, speedVars, barVars, text, mouseVars,
                 font_color, font_size, font_family, size_slider,
                 control_visible>>

\* Variant: the control panel is hidden whatever it was.
toggle_controls_hides ==
  /\ control_visible' = FALSE
  /\ UNCHANGED <<lockVars, scrollVars, speedVars, barVars, text, mouseVars,
                 transparency, font_color, font_size, font_family,
                 size_slider, trans_slider>>

toggle_controls ==
  /\ control_visible' = ~control_visible
  /\ UNCHANGED <<lockVars, scrollVars, speedVars, barVars, text, mouseVars,
                 transparency, font_color, font_size, font_family,
                 size_slider, trans_slider>>


\* -------------------------------------------------------------- keyboard
Key(k, m) == [key |-> k, modifiers |-> m]
KeyName(ev) == ev.modifiers \o "+" \o ev.key

\* setup_shortcuts and __init__: the QShortcuts registered on the window.
\* None of them is ever disabled.
Shortcuts ==
  {Key("L", "Ctrl"), Key("S", "Ctrl"), Key("C", "Ctrl"), Key("Up", "Ctrl"),
   Key("Down", "Ctrl"), Key("Up", "Shift"), Key("Down", "Shift"),
   Key("H", "Ctrl"), Key("U", "Ctrl+Alt")}

\* A printable key and a key that no widget handles.
OtherKeys == {Key("A", "None"), Key("F1", "None")}
KeyEvents == Shortcuts \cup OtherKeys
FocusWidgets == {"text_edit", "other"}

\* The slot connected to the shortcut's activated signal.
ShortcutActivated(ev) ==
  CASE ev = Key("L", "Ctrl")     -> ToggleLockSlot
    [] ev = Key("S", "Ctrl")     -> toggle_scrolling
    [] ev = Key("C", "Ctrl")     -> \E r \in DialogResults : change_font_color(r)
    [] ev = Key("Up", "Ctrl")    -> increase_scroll_speed
    [] ev = Key("Down", "Ctrl")  -> decrease_scroll_speed
    [] ev = Key("Up", "Shift")   -> scroll_up
    [] ev = Key("Down", "Shift") -> scroll_down
    [] ev = Key("H", "Ctrl")     -> toggle_controls
    [] ev = Key("U", "Ctrl+Alt") -> emergency_unlock

Unchanged == UNCHANGED <<lockVars, scrollVars, speedVars, barVars, styleVars,
                         text, mouseVars>>

\* eventFilter for an event of type KeyPress that reached the window.
eventFilter(ev) ==
  IF ev.key = "L" /\ ev.modifiers = "Ctrl" THEN ToggleLockSlot
  ELSE IF ev.key = "S" /\ ev.modifiers = "Ctrl" THEN toggle_scrolling
  ELSE IF locked THEN Unchanged
  ELSE IF ev.key = "Up" /\ ev.modifiers = "Shift" THEN scroll_up
  ELSE IF ev.key = "Down" /\ ev.modifiers = "Shift" THEN scroll_down
  ELSE IF ev.key = "C" /\ ev.modifiers = "Ctrl"
    THEN \E r \in DialogResults : change_font_color(r)
  ELSE IF ev.key = "H" /\ ev.modifiers = "Ctrl" THEN toggle_controls
  ELSE IF ev.key = "Up" /\ ev.modifiers = "Ctrl" THEN increase_scroll_speed
  ELSE IF ev.key = "Down" /\ ev.modifiers = "Ctrl" THEN decrease_scroll_speed
  ELSE Unchanged

\* The editable text surface claims the common editing keys (printable
\* keys, Shift+arrows, copy) through ShortcutOverride when it has focus; a
\* read-only one claims none.
ShortcutOverrideAccepted(ev, focus) ==
  /\ focus = "text_edit"
  /\ ~readOnly
  /\ ev \in {Key("A", "None"), Key("Up", "Shift"), Key("Down", "Shift"),
             Key("C", "Ctrl")}

\* The text surface handling a key it claimed: a printable key edits the
\* content; selection moves and copy leave the modelled state alone.
TextEditKeyPress(ev) ==
  IF ev = Key("A", "None")
    THEN /\ \E t \in Texts \ {text} : text' = t /\ Relayout(t)
         /\ UNCHANGED <<lockVars, scrollVars, speedVars, styleVars, mouseVars>>
    ELSE Unchanged

\* One key press while the window is active, dispatched as the toolkit
\* does: ShortcutOverride, then the shortcut map, then KeyPress delivery.
KeyPressEvent(ev, focus) ==
  \/ /\ ShortcutOverrideAccepted(ev, focus)
     /\ TextEditKeyPress(ev)
     /\ Note("text_edit", KeyName(ev))
  \/ /\ ~ShortcutOverrideAccepted(ev, focus)
     /\ ev \in Shortcuts
     /\ ShortcutActivated(ev)
     /\ Note("QShortcut", KeyName(ev))
  \/ /\ ~ShortcutOverrideAccepted(ev, focus)
     /\ ev \notin Shortcuts
     /\ eventFilter(ev)
     /\ Note("eventFilter", KeyName(ev))

\* ------------------------------------------------- control strip signals
\* A control takes a click or a slider move only when it is enabled and
\* shown and the window is not holding the mouse.
Operable(w) == enabled[w] /\ control_visible /\ buttons = {}

\* Variant: the click runs toggle_lock on both of its wirings, the clicked
\* signal and the window's under-mouse test, which leaves the lock as it was.
LockButtonClicked_twice ==
  /\ Operable("lock_button")
  /\ Unchanged
  /\ Note("lock_button", "")

LockButtonClicked ==
  /\ Operable("lock_button")
  /\ ToggleLockSlot
  /\ Note("lock_button", "")

ScrollButtonClicked ==
  /\ Operable("scroll_button")
  /\ toggle_scrolling
  /\ Note("scroll_button", "")

ColorButtonClicked ==
  /\ Operable("color_button")
  /\ \E r \in DialogResults : change_font_color(r)
  /\ Note("color_button", "")

FontComboChanged(family) ==
  /\ Operable("font_combo")
  /\ family # font_family
  /\ change_font_family(family)
  /\ Note("font_combo", "")

SizeSliderMoved(v) ==
  /\ Operable("size_slider")
  /\ v # size_slider
  /\ size_slider' = v
  /\ change_font_size(v)
  /\ NoteInput("size_slider", "", <<v>>)

TransSliderMoved(v) ==
  /\ Operable("trans_slider")
  /\ v # trans_slider
  /\ trans_slider' = v
  /\ change_transparency(v)
  /\ NoteInput("trans_slider", "", <<v>>)

ScrollSliderMoved(v) ==
  /\ Operable("scroll_slider")
  /\ v # scroll_slider
  /\ scroll_slider' = v
  /\ change_scroll_speed(v)
  /\ NoteInput("scroll_slider", "", <<v>>)

\* A slot applied to a value of its slider's range, the value the slider
\* already shows included.
TransSliderValueChanged(v) ==
  /\ Operable("trans_slider")
  /\ trans_slider' = v
  /\ change_transparency(v)
  /\ NoteInput("change_transparency", "", <<v>>)

ScrollSliderValueChanged(v) ==
  /\ Operable("scroll_slider")
  /\ scroll_slider' = v
  /\ change_scroll_speed(v)
  /\ NoteInput("change_scroll_speed", "", <<v>>)

\* scroll_timer.timeout, every 50ms while the timer runs.
TimerTimeout ==
  /\ timer_active
  /\ auto_scroll
  /\ last' = Event("timeout", "", <<>>)
  /\ Saved
  /\ run' = IF run.ticks < MaxTicks
              THEN [run EXCEPT !.ticks = @ + 1]
              ELSE [base |-> scroll_value, ticks |-> 1]


\* ----------------------------------------------------------------- mouse
MouseButtons == {"Left", "Right"}
\* Global pointer positions: two on the window body, the bottom-right
\* corner of the initial window, the corner of a minimum-size window, and
\* one far up and left of the window.
GlobalPoints == {<<150, 150>>, <<200, 180>>, <<690, 490>>, <<395, 295>>,
                 <<20, 20>>}

\* rect().bottomRight() - event.pos() < corner_size on both axes.
InCorner(gp) ==
  /\ (size[1] - 1) - (gp[1] - pos[1]) < corner_size
  /\ (size[2] - 1) - (gp[2] - pos[2]) < corner_size

InWindow(gp) ==
  /\ gp[1] - pos[1] >= 0 /\ gp[1] - pos[1] < size[1]
  /\ gp[2] - pos[2] >= 0 /\ gp[2] - pos[2] < size[2]

\* Variant: a locked window does not begin a resize.
mousePressEvent_no_locked_resize(gp, button, underMouse) ==
  IF resize_enabled /\ ~locked /\ InCorner(gp)
    THEN /\ cursor' = "SizeFDiag"
         /\ dragging' = FALSE
         /\ has_resizing' = TRUE
         /\ resizing' = TRUE
         /\ resize_start_pos' = gp
         /\ resize_start_size' = size
         /\ UNCHANGED <<lockVars, drag_position, pos, size>>
  ELSE IF locked /\ underMouse
    THEN /\ toggle_lock
         /\ UNCHANGED <<dragging, drag_position, has_resizing, resizing,
                        resize_start_pos, resize_start_size, pos, size,
                        cursor>>
  ELSE IF ~locked /\ button = "Left"
    THEN /\ dragging' = TRUE
         /\ has_resizing' = TRUE
         /\ resizing' = FALSE
         /\ drag_position' = <<gp[1] - pos[1], gp[2] - pos[2]>>
         /\ UNCHANGED <<lockVars, resize_start_pos, resize_start_size, pos,
                        size, cursor>>
  ELSE UNCHANGED <<lockVars, dragging, drag_position, has_resizing, resizing,
                   resize_start_pos, resize_start_size, pos, size, cursor>>

\* underMouse is lock_button.underMouse(), the toolkit's enter/leave
\* bookkeeping at the time of the press.
\* Variant: a press in the corner leaves dragging as it was.
mousePressEvent_keeps_dragging(gp, button, underMouse) ==
  IF resize_enabled /\ InCorner(gp)
    THEN /\ cursor' = "SizeFDiag"
         /\ has_resizing' = TRUE
         /\ resizing' = TRUE
         /\ resize_start_pos' = gp
         /\ resize_start_size' = size
         /\ UNCHANGED <<lockVars, dragging, drag_position, pos, size>>
  ELSE IF locked /\ underMouse
    THEN /\ toggle_lock
         /\ UNCHANGED <<dragging, drag_position, has_resizing, resizing,
                        resize_start_pos, resize_start_size, pos, size,
                        cursor>>
  ELSE IF ~locked /\ button = "Left"
    THEN /\ dragging' = TRUE
         /\ has_resizing' = TRUE
         /\ resizing' = FALSE
         /\ drag_position' = <<gp[1] - pos[1], gp[2] - pos[2]>>
         /\ UNCHANGED <<lockVars, resize_start_pos, resize_start_size, pos,
                        size, cursor>>
  ELSE UNCHANGED <<lockVars, dragging, drag_position, has_resizing, resizing,
                   resize_start_pos, resize_start_size, pos, size, cursor>>

mousePressEvent(gp, button, underMouse) ==
  IF resize_enabled /\ InCorner(gp)
    THEN /\ cursor' = "SizeFDiag"
         /\ dragging' = FALSE
         /\ has_resizing' = TRUE
         /\ resizing' = TRUE
         /\ resize_start_pos' = gp
         /\ resize_start_size' = size
         /\ UNCHANGED <<lockVars, drag_position, pos, size>>
  ELSE IF locked /\ underMouse
    THEN /\ toggle_lock
         /\ UNCHANGED <<dragging, drag_position, has_resizing, resizing,
                        resize_start_pos, resize_start_size, pos, size,
                        cursor>>
  ELSE IF ~locked /\ button = "Left"
    THEN /\ dragging' = TRUE
         /\ has_resizing' = TRUE
         /\ resizing' = FALSE
         /\ drag_position' = <<gp[1] - pos[1], gp[2] - pos[2]>>
         /\ UNCHANGED <<lockVars, resize_start_pos, resize_start_size, pos,
                        size, cursor>>
  ELSE UNCHANGED <<lockVars, dragging, drag_position, has_resizing, resizing,
                   resize_start_pos, resize_start_size, pos, size, cursor>>

\* A press reaches the window when no child widget takes it: a left press
\* over the lock button is taken by the button (its click is
\* LockButtonClicked), any other button's press is passed on to the window.
MousePress(gp, button, underMouse) ==
  /\ button \notin buttons
  /\ buttons = {} => InWindow(gp)
  /\ (underMouse /\ buttons = {}) => button # "Left"
  /\ mousePressEvent(gp, button, underMouse)
  /\ buttons' = buttons \cup {button}
  /\ UNCHANGED <<scrollVars, speedVars, barVars, styleVars, text>>
  /\ NoteInput("mousePressEvent", button, gp)

\* Variant: the drag branch does not test the lock.
mouseMoveEvent_ungated(gp) ==
  IF resize_enabled /\ has_resizing /\ resizing /\ buttons = {"Left"}
    THEN /\ size' = <<Max(MinimumWidth,
                          resize_start_size[1] + (gp[1] - resize_start_pos[1])),
                      Max(MinimumHeight,
                          resize_start_size[2] + (gp[2] - resize_start_pos[2]))>>
         /\ size'[1] <= MaxWidth /\ size'[2] <= MaxHeight
         /\ Relayout(text)
         /\ UNCHANGED <<pos, cursor>>
    ELSE /\ IF dragging /\ buttons = {"Left"}
              THEN /\ pos' = <<gp[1] - drag_position[1],
                               gp[2] - drag_position[2]>>
                   /\ pos'[1] \in 0..MaxCoord /\ pos'[2] \in 0..MaxCoord
              ELSE pos' = pos
         /\ cursor' = IF resize_enabled /\ InCorner(gp)
                        THEN "SizeFDiag" ELSE "Arrow"
         /\ UNCHANGED <<size, barVars>>

\* Variant: the new size is not floored at the minimum size.
mouseMoveEvent_nofloor(gp) ==
  IF resize_enabled /\ has_resizing /\ resizing /\ buttons = {"Left"}
    THEN /\ size' = <<resize_start_size[1] + (gp[1] - resize_start_pos[1]),
                      resize_start_size[2] + (gp[2] - resize_start_pos[2])>>
         /\ size'[1] <= MaxWidth /\ size'[2] <= MaxHeight
         /\ Relayout(text)
         /\ UNCHANGED <<pos, cursor>>
    ELSE /\ IF ~locked /\ dragging /\ buttons = {"Left"}
              THEN /\ pos' = <<gp[1] - drag_position[1],
                               gp[2] - drag_position[2]>>
                   /\ pos'[1] \in 0..MaxCoord /\ pos'[2] \in 0..MaxCoord
              ELSE pos' = pos
         /\ cursor' = IF resize_enabled /\ InCorner(gp)
                        THEN "SizeFDiag" ELSE "Arrow"
         /\ UNCHANGED <<size, barVars>>

\* event.buttons() is the set of buttons held.
mouseMoveEvent(gp) ==
  IF resize_enabled /\ has_resizing /\ resizing /\ buttons = {"Left"}
    THEN /\ size' = <<Max(MinimumWidth,
                          resize_start_size[1] + (gp[1] - resize_start_pos[1])),
                      Max(MinimumHeight,
                          resize_start_size[2] + (gp[2] - resize_start_pos[2]))>>
         /\ size'[1] <= MaxWidth /\ size'[2] <= MaxHeight
         /\ Relayout(text)
         /\ UNCHANGED <<pos, cursor>>
    ELSE /\ IF ~locked /\ dragging /\ buttons = {"Left"}
              THEN /\ pos' = <<gp[1] - drag_position[1],
                               gp[2] - drag_position[2]>>
                   /\ pos'[1] \in 0..MaxCoord /\ pos'[2] \in 0..MaxCoord
              ELSE pos' = pos
         /\ cursor' = IF resize_enabled /\ InCorner(gp)
                        THEN "SizeFDiag" ELSE "Arrow"
         /\ UNCHANGED <<size, barVars>>

MouseMove(gp) ==
  /\ buttons # {}
  /\ mouseMoveEvent(gp)
  /\ UNCHANGED <<lockVars, scrollVars, speedVars, styleVars, text, dragging,
                 drag_position, has_resizing, resizing, resize_start_pos,
                 resize_start_size, buttons>>
  /\ NoteInput("mouseMoveEvent", "", gp)

mouseReleaseEvent(button) ==
  IF button = "Left"
    THEN /\ dragging' = FALSE
         /\ resizing' = IF has_resizing THEN FALSE ELSE resizing
    ELSE UNCHANGED <<dragging, resizing>>

MouseRelease(button) ==
  /\ button \in buttons
  /\ mouseReleaseEvent(button)
  /\ buttons' = buttons \ {button}
  /\ UNCHANGED <<lockVars, scrollVars, speedVars, barVars, styleVars, text,
                 drag_position, has_resizing, resize_start_pos,
                 resize_start_size, pos, size, cursor>>
  /\ Note("mouseReleaseEvent", button)

\* ------------------------------------------------------- specifications
LockKeys == {Key("L", "Ctrl"), Key("U", "Ctrl+Alt")}
ScrollKeys == LockKeys \cup
  {Key("S", "Ctrl"), Key("Up", "Ctrl"), Key("Down", "Ctrl"),
   Key("Up", "Shift"), Key("Down", "Shift")} \cup OtherKeys
StyleKeys == LockKeys \cup {Key("C", "Ctrl"), Key("H", "Ctrl")} \cup OtherKeys

KeyPressIn(keys) == \E ev \in keys, f \in FocusWidgets : KeyPressEvent(ev, f)

ScrollControls ==
  \/ ScrollButtonClicked
  \/ \E v \in MinSpeed..MaxSpeed : ScrollSliderMoved(v)
  \/ TimerTimeout

StyleControlsUsed ==
  \/ ColorButtonClicked
  \/ \E f \in Families : FontComboChanged(f)
  \/ \E v \in FontSizes : SizeSliderMoved(v)
  \/ \E v \in Opacities : TransSliderMoved(v)

MouseEvents ==
  \/ \E gp \in GlobalPoints, b \in MouseButtons, um \in BOOLEAN :
       MousePress(gp, b, um)
  \/ \E gp \in GlobalPoints : MouseMove(gp)
  \/ \E b \in MouseButtons : MouseRelease(b)

\* The whole program.
Next ==
  \/ KeyPressIn(KeyEvents)
  \/ LockButtonClicked
  \/ ScrollControls
  \/ StyleControlsUsed
  \/ MouseEvents
Spec == Init /\ [][Next]_vars

\* Lock mode with scroll mode: the keys, controls and timer that act on the
\* lock state, the scroll state, the speed and the scroll offset.
NextScroll == KeyPressIn(ScrollKeys) \/ LockButtonClicked \/ ScrollControls
SpecScroll == Init /\ [][NextScroll]_vars

\* Lock mode with content and styling.
NextStyle == KeyPressIn(StyleKeys) \/ LockButtonClicked \/ StyleControlsUsed
SpecStyle == Init /\ [][NextStyle]_vars

\* Lock mode with the mouse gestures; of the other keys, one the text
\* surface claims and one no widget handles.
MouseKeys == LockKeys \cup {Key("Up", "Shift"), Key("F1", "None")}
NextMouse == KeyPressIn(MouseKeys) \/ LockButtonClicked \/ MouseEvents
SpecMouse == Init /\ [][NextMouse]_vars

\* Lock mode with the two sliders' slots over the sliders' whole ranges.
SliderKeys == LockKeys \cup
  {Key("Up", "Ctrl"), Key("Down", "Ctrl"), Key("Up", "Shift"),
   Key("F1", "None")}
NextSliders ==
  \/ KeyPressIn(SliderKeys)
  \/ LockButtonClicked
  \/ \E v \in MinOpacity..MaxOpacity : TransSliderValueChanged(v)
  \/ \E v \in MinSpeed..MaxSpeed : ScrollSliderValueChanged(v)
SpecSliders == Init /\ [][NextSliders]_vars

TypeOK ==
  /\ locked \in BOOLEAN /\ scrolling \in BOOLEAN
  /\ scroll_speed \in MinSpeed..MaxSpeed
  /\ scroll_value \in 0..scroll_max
  /\ ~has_resizing => ~resizing


\* ============================================================ properties
KeyOps == {"QShortcut", "eventFilter", "text_edit"}
\* The event handled last was a press of the key named k.
KeyWasPressed(k) == last.op \in KeyOps /\ last.arg = k
\* The step is the handling of a press of the key named k.
KeyIsPressed(k) == last'.op \in KeyOps /\ last'.arg = k

\* C1: after every Ctrl+Alt+U key press the window is unlocked, whether it
\* was locked (controls disabled, event filter swallowing key presses) or
\* unlocked before.
C1_EmergencyUnlockUnlocks ==
  KeyWasPressed("Ctrl+Alt+U") => ~locked

\* C1 witness: a Ctrl+Alt+U press that found the window locked, with the
\* style controls disabled, and left it unlocked.
C1_Witness ==
  /\ KeyWasPressed("Ctrl+Alt+U")
  /\ last.locked
  /\ ~locked
  /\ \A w \in Widgets : enabled[w]

\* C2: whenever the window is locked the text surface is read-only and the
\* font selector, the size, transparency and speed sliders and the colour
\* button are disabled.
C2_LockedDisablesStyleControls ==
  locked => /\ readOnly
            /\ ~enabled["font_combo"]
            /\ ~enabled["size_slider"]
            /\ ~enabled["color_button"]
            /\ ~enabled["trans_slider"]
            /\ ~enabled["scroll_slider"]

\* C2 witness: the window locked again after an earlier lock and unlock,
\* with a mouse button held.
C2_Witness ==
  /\ locked
  /\ ~last.locked
  /\ last.op = "QShortcut"
  /\ has_resizing
  /\ buttons # {}
  /\ readOnly

\* C3: the lock button and the scroll button are enabled in every state,
\* every Ctrl+L press flips the lock state and every Ctrl+S press flips the
\* scroll state.
C3_AlwaysEscapable ==
  /\ enabled["lock_button"]
  /\ enabled["scroll_button"]
  /\ KeyWasPressed("Ctrl+L") => locked = ~last.locked
  /\ KeyWasPressed("Ctrl+S") => scrolling = ~last.scrolling

\* C3 witness: Ctrl+S pressed while locked started the scrolling.
C3_Witness ==
  /\ KeyWasPressed("Ctrl+S")
  /\ locked
  /\ last.locked
  /\ ~last.scrolling
  /\ scrolling
  /\ enabled["lock_button"] /\ enabled["scroll_button"]

\* C4: while the window is locked, no press of Shift+Up or Shift+Down
\* changes the scroll offset.
C4_NudgeDisabledWhileLocked ==
  [][(locked /\ (KeyIsPressed("Shift+Up") \/ KeyIsPressed("Shift+Down")))
       => scroll_value' = scroll_value]_vars

\* C5: while the window is locked, no press of Ctrl+Up or Ctrl+Down changes
\* scroll_speed or the speed slider's value.
C5_SpeedKeysDisabledWhileLocked ==
  [][(locked /\ (KeyIsPressed("Ctrl+Up") \/ KeyIsPressed("Ctrl+Down")))
       => (scroll_speed' = scroll_speed /\ scroll_slider' = scroll_slider)]_vars

\* C6: after every mouse release neither gesture flag is set.
C6_ReleaseClearsGesture ==
  last.op = "mouseReleaseEvent" => (~dragging /\ ~resizing)

\* C7: while the window is locked, no event changes the font family, the
\* font size, the font colour, the opacity or the text content.
C7_StyleFrozenWhileLocked ==
  [][locked => UNCHANGED <<font_family, font_size, font_color, transparency,
                           text>>]_vars

\* C8: from a locked state no event moves the window origin and no event
\* sets dragging.
C8_NoDragWhileLocked ==
  [][locked => (pos' = pos /\ (dragging' => dragging))]_vars

\* C8 witness: a drag begun before the window was locked, the left button
\* still held, and a mouse move handled while locked.
C8_Witness ==
  /\ last.op = "mouseMoveEvent"
  /\ last.locked
  /\ locked
  /\ dragging
  /\ buttons = {"Left"}
  /\ pos # <<100, 100>>

\* C9 as claimed: after a run of n consecutive ticks at speed s the offset
\* is the offset the run started from plus n*s.
C9_TicksAdvanceExactly ==
  last.op = "timeout" => scroll_value = run.base + run.ticks * scroll_speed

\* C9 amended: after a run of n consecutive ticks at speed s the offset is
\* the offset the run started from plus n*s, or the scrollbar's maximum
\* when that is smaller.
C9_TicksAdvanceToMaximum ==
  last.op = "timeout" =>
    scroll_value = Min(scroll_max, run.base + run.ticks * scroll_speed)

\* C9 witness: five consecutive ticks at a speed above 1 that stayed below
\* the maximum.
C9_Witness ==
  /\ last.op = "timeout"
  /\ run.ticks >= 5
  /\ scroll_speed > 1
  /\ scroll_value = run.base + run.ticks * scroll_speed
  /\ scroll_value < scroll_max

\* A nudge: the slot scroll_up or scroll_down run by its shortcut.
NudgeUp == last'.op = "QShortcut" /\ last'.arg = "Shift+Up"
NudgeDown == last'.op = "QShortcut" /\ last'.arg = "Shift+Down"

\* C10 as claimed: a nudge changes the offset by exactly -10 or +10.
C10_NudgeExactlyTen ==
  [][/\ NudgeUp => scroll_value' = scroll_value - NudgeUnits
     /\ NudgeDown => scroll_value' = scroll_value + NudgeUnits]_vars

\* C10 amended: a nudge changes the offset by -10 or +10, stopping at 0
\* and at the scrollbar's maximum, whatever the speed and the scroll state.
C10_NudgeTenWithinRange ==
  [][/\ NudgeUp => scroll_value' = Max(0, scroll_value - NudgeUnits)
     /\ NudgeDown => scroll_value' = Min(scroll_max, scroll_value + NudgeUnits)]_vars

\* C10 witness: a downward nudge while scrolling at a speed above 1 that
\* moved the offset by 10 to a value below the maximum.
C10_Witness ==
  /\ last.op = "QShortcut" /\ last.arg = "Shift+Down"
  /\ scrolling
  /\ scroll_speed > 1
  /\ scroll_value >= NudgeUnits
  /\ scroll_value < scroll_max
  /\ run.base = scroll_value

\* C11: scroll_speed is within 1..10 in every state; a Ctrl+Up press adds 1
\* to it and a Ctrl+Down press takes 1 from it, except that at 10 it stays
\* 10 and at 1 it stays 1.
C11_SpeedWithinRange ==
  /\ scroll_speed \in MinSpeed..MaxSpeed
  /\ KeyWasPressed("Ctrl+Up") =>
       scroll_speed = (IF last.speed = 10 THEN 10 ELSE last.speed + 1)
  /\ KeyWasPressed("Ctrl+Down") =>
       scroll_speed = (IF last.speed = 1 THEN 1 ELSE last.speed - 1)

\* C11 witness: Ctrl+Up pressed at speed 10, which the slider had set.
C11_Witness ==
  /\ KeyWasPressed("Ctrl+Up")
  /\ last.speed = 10
  /\ scroll_speed = 10

\* C12: one click on the lock button and one Ctrl+L press each flip the
\* lock state exactly once, from Unlocked to Locked and from Locked to
\* Unlocked.
C12_OneTriggerOneFlip ==
  (last.op = "lock_button" \/ KeyWasPressed("Ctrl+L")) =>
    /\ locked = ~last.locked
    /\ lock_button_text = (IF last.locked THEN "Lock Position"
                                          ELSE "Unlock Position")

\* C12 witness: a click on the lock button that found the window locked
\* and left it unlocked.
C12_Witness ==
  /\ last.op = "lock_button"
  /\ last.locked
  /\ ~locked

\* C13: when an event unlocks the window, every control's enabled flag and
\* the text surface's read-only flag are what they were when the window was
\* locked; the lock and scroll buttons are enabled throughout.
C13_LockRoundTrip ==
  /\ enabled["lock_button"] /\ enabled["scroll_button"]
  /\ saved.enabled["lock_button"] /\ saved.enabled["scroll_button"]
  /\ (last.locked /\ ~locked) =>
       (enabled = saved.enabled /\ readOnly = saved.readOnly)

\* C13 witness: Ctrl+L unlocked a window that Ctrl+L had locked, with the
\* flags back at their saved values.
C13_Witness ==
  /\ KeyWasPressed("Ctrl+L")
  /\ last.locked
  /\ ~locked
  /\ enabled = saved.enabled
  /\ ~readOnly

\* The last event was a mouse move taken by the resize branch: a resize is
\* in progress and the left button alone is held (a move changes neither).
ResizeMoved ==
  /\ last.op = "mouseMoveEvent"
  /\ has_resizing /\ resizing
  /\ buttons = {"Left"}

\* C14: the window is never smaller than 300x200, and after every mouse
\* move of a resize its width is max(300, start width + dx) and its height
\* max(200, start height + dy), dx and dy being the pointer's distance from
\* where the resize began.
C14_ResizeKeepsMinimum ==
  /\ size[1] >= 300 /\ size[2] >= 200
  /\ ResizeMoved =>
       LET dx == last.input[1] - resize_start_pos[1]
           dy == last.input[2] - resize_start_pos[2]
           w == resize_start_size[1] + dx
           h == resize_start_size[2] + dy
       IN size = <<IF w < 300 THEN 300 ELSE w, IF h < 200 THEN 200 ELSE h>>

\* C14 witness: a resize begun on the 600x400 window and moved far up and
\* left (dx = -670, dy = -470), leaving the window at 300x200.
C14_Witness ==
  /\ ResizeMoved
  /\ resize_start_size = <<600, 400>>
  /\ resize_start_pos = <<690, 490>>
  /\ last.input = <<20, 20>>
  /\ size = <<300, 200>>

\* C15: the scroll state starts Idle, the timer runs exactly while the
\* state is Scrolling, and a tick is only ever handled in the Scrolling
\* state, so none changes the offset between a stop and the next start.
C15_TimerRunsWhileScrolling ==
  /\ timer_active <=> scrolling
  /\ last.op = "init" => ~scrolling
  /\ last.op = "timeout" => (last.scrolling /\ scrolling)

\* C15 witness: Ctrl+S stopped a scroll that had advanced the offset; the
\* timer is stopped.
C15_Witness ==
  /\ KeyWasPressed("Ctrl+S")
  /\ last.scrolling
  /\ ~scrolling
  /\ ~timer_active
  /\ scroll_value > 0

\* The last event was a press inside the 20x20 bottom-right corner (a press
\* leaves the window's origin and size alone).
PressedInCorner ==
  /\ last.op = "mousePressEvent"
  /\ last.input[1] - pos[1] > size[1] - 1 - 20
  /\ last.input[2] - pos[2] > size[2] - 1 - 20

\* C16: in both lock states a press inside the corner begins a resize
\* (resizing set, dragging clear, the pointer position and the window size
\* recorded, the lock state untouched), and a following move with the left
\* button held sizes the window from the recorded start.
C16_ResizeInBothLockStates ==
  /\ PressedInCorner =>
       /\ has_resizing /\ resizing /\ ~dragging
       /\ resize_start_pos = last.input
       /\ resize_start_size = size
       /\ locked = last.locked
  /\ ResizeMoved =>
       /\ size[1] = Max(300, resize_start_size[1]
                               + last.input[1] - resize_start_pos[1])
       /\ size[2] = Max(200, resize_start_size[2]
                               + last.input[2] - resize_start_pos[2])
       /\ locked = last.locked

\* C16 witness: a press in the corner of a locked window began a resize.
C16_Witness ==
  /\ PressedInCorner
  /\ last.locked /\ locked
  /\ resizing /\ ~dragging
  /\ resize_start_pos = last.input
  /\ resize_start_size = size

\* What the slots leave behind: the opacity is exactly v/100 and lies in
\* [0.10, 1.00]; the speed is v.
SliderMapping ==
  /\ last.op = "change_transparency" =>
       /\ last.input[1] \in 10..100
       /\ transparency[1] * 100 = last.input[1] * transparency[2]
       /\ transparency[1] * 10 >= transparency[2]
       /\ transparency[1] <= transparency[2]
       /\ trans_slider = last.input[1]
  /\ last.op = "change_scroll_speed" =>
       /\ last.input[1] \in 1..10
       /\ scroll_speed = last.input[1]
       /\ scroll_slider = last.input[1]

\* A slot applied again to the value it was applied to last.
SliderRepeated ==
  /\ last.op \in {"change_transparency", "change_scroll_speed"}
  /\ last'.op = last.op
  /\ last'.input = last.input

\* C17: after the transparency slot is applied to v in 10..100 the opacity
\* is v/100, within [0.10, 1.00]; after the speed slot is applied to v in
\* 1..10 scroll_speed is v; and applying a slot to the same v a second time
\* changes nothing of the program's state.
C17_SliderMappingIdempotent ==
  /\ []SliderMapping
  /\ [][SliderRepeated =>
          UNCHANGED <<lockVars, scrollVars, speedVars, barVars, styleVars,
                      text, mouseVars>>]_vars

\* C17 witness: the transparency slot applied to 35 when the opacity was
\* already 35/100 = 7/20, leaving it 7/20.
C17_Witness ==
  /\ last.op = "change_transparency"
  /\ last.input = <<35>>
  /\ last.opacity = <<7, 20>>
  /\ transparency = <<7, 20>>
  /\ trans_slider = 35

\* C18: one Ctrl+H toggle inverts the control panel's visibility, and a
\* second toggle straight after the first brings back the visibility the
\* first one found, whether the panel was shown or hidden and the window
\* locked or unlocked.
C18_ToggleControlsInvolution ==
  /\ [](KeyWasPressed("Ctrl+H") => control_visible = ~last.visible)
  /\ [][(KeyWasPressed("Ctrl+H") /\ KeyIsPressed("Ctrl+H")) =>
          /\ control_visible' = last.visible
          /\ control_visible' = ~control_visible]_vars

\* C18 witness: a toggle in a locked window that shows a hidden panel.
C18_Witness ==
  /\ KeyWasPressed("Ctrl+H")
  /\ last.locked /\ locked
  /\ ~last.visible /\ control_visible

\* C19: the speed slider always shows scroll_speed, whatever the order of
\* slider changes and Ctrl+Up / Ctrl+Down adjustments; in particular it
\* shows the new speed right after each of them.
C19_SliderMirrorsSpeed ==
  /\ scroll_slider = scroll_speed
  /\ last.op = "scroll_slider" => scroll_slider = last.input[1]
  /\ KeyWasPressed("Ctrl+Up") => scroll_slider = Min(last.speed + 1, 10)
  /\ KeyWasPressed("Ctrl+Down") => scroll_slider = Max(last.speed - 1, 1)

\* C19 witness: Ctrl+Down right after the slider was put at the middle of
\* its range takes both the speed and the slider from 5 to 4.
C19_Witness ==
  /\ KeyWasPressed("Ctrl+Down")
  /\ last.speed = 5
  /\ scroll_speed = 4
  /\ scroll_slider = 4

\* The event being handled runs toggle_lock or emergency_unlock.
LockEvent ==
  \/ KeyIsPressed("Ctrl+L")
  \/ KeyIsPressed("Ctrl+Alt+U")
  \/ last'.op = "lock_button"

\* The event being handled runs toggle_scrolling.
ScrollEvent ==
  \/ KeyIsPressed("Ctrl+S")
  \/ last'.op = "scroll_button"

\* C20: lock mode and scroll mode do not touch each other. An event that
\* runs toggle_lock or emergency_unlock leaves scrolling, the timer, the
\* speed and the scroll offset as they were; an event that runs
\* toggle_scrolling leaves locked and every control's enabled and read-only
\* flag as they were; and a timer tick in a locked window still moves the
\* offset on by scroll_speed (up to the scrollbar's maximum) and leaves the
\* window locked.
C20_LockScrollIndependent ==
  [][/\ LockEvent =>
          UNCHANGED <<scrolling, timer_active, scroll_speed, scroll_value>>
     /\ ScrollEvent => UNCHANGED <<locked, enabled, readOnly>>
     /\ (last'.op = "timeout" /\ locked) =>
          /\ scroll_value' = Min(scroll_max, scroll_value + scroll_speed)
          /\ locked'
    ]_vars

\* C20 witness: the second or a later tick of a run in a locked window
\* that is still scrolling, the offset having moved on from where the run
\* began.
C20_Witness ==
  /\ last.op = "timeout"
  /\ last.locked /\ locked
  /\ last.scrolling /\ scrolling /\ timer_active
  /\ run.ticks >= 2
  /\ scroll_value > run.base

\* C21: dragging and resizing are never both true, after any sequence of
\* presses, moves and releases with either button in either lock state; and
\* resizing is not true before the attribute exists.
C21_DragResizeExclusive ==
  /\ ~(dragging /\ resizing)
  /\ resizing => has_resizing

\* C21 witness: with the left button held in an unlocked window whose drag
\* offset is recorded, a right-button press in the corner has begun a
\* resize and cleared dragging.
C21_Witness ==
  /\ last.op = "mousePressEvent" /\ last.arg = "Right"
  /\ buttons = {"Left", "Right"}
  /\ ~last.locked /\ ~locked
  /\ drag_position # <<>>
  /\ resize_start_pos = last.input
  /\ resizing /\ ~dragging

====
